---------------------------- MODULE Spec2Model ----------------------------
(***************************************************************************)
(* Model of src/player.rs of inv_sig_helper: the player update pipeline    *)
(* fetch_update, run by several concurrent tasks over the one shared       *)
(* PlayerInfo record behind GlobalState.player_info (an async mutex).      *)
(*                                                                         *)
(* A task's steps are the stretches of fetch_update between two            *)
(* suspension points (the two HTTP requests, the three lock().await) plus  *)
(* the blocking call to the yt-dlp collaborator.  Text is abstracted: a    *)
(* reference page is the outcome of REGEX_PLAYER_ID on it, a player bundle *)
(* is the outcome of each extraction pattern on it.  A panic (a failed      *)
(* unwrap) ends the run with status "Panic" and the line it happened at.   *)
(* written and committed are history variables.                            *)
(***************************************************************************)
EXTENDS Integers, Sequences, FiniteSets, TLC

(***************************************************************************)
(* Bounds of the model.                                                    *)
(***************************************************************************)
NumTasks == 2

MaxRuns == 3

MaxPlayerId == 2

(***************************************************************************)
(* Program constants.                                                      *)
(***************************************************************************)
\* has_player == 0xFF marks a populated cache
Populated == 255

\* NSIG_FUNCTION_ARRAYS.len(), NSIG_FUNCTION_ENDINGS.len() (crate::consts)
NumNsigFunctionArrays == 2

NumNsigFunctionEndings == 2

Tasks == 1..NumTasks

PlayerIds == 0..MaxPlayerId

\* tag of a code field that no extraction has written (String::new())
NoId == -1

VARIABLES
    player_info,          \* the shared PlayerInfo record
    lock,                 \* holder of player_info's mutex, 0 when free
    now,                  \* SystemTime::now()
    env_force,            \* ENV_PLAYER_ID_FORCE
    update_disabled,      \* ENV_PLAYER_ID_UPDATE_DISABLED == "1"
    ytdlp,                \* ytdlp_requested()
    runs,                 \* number of fetch_update calls made so far
    pc,                   \* per task: where its fetch_update stands
    response,             \* per task: result of GET TEST_YOUTUBE_VIDEO
    player_id,            \* per task: local player_id
    current_player_id,    \* per task: local current_player_id
    player_javascript,    \* per task: the fetched player bundle
    status,               \* per task: how its last run ended
    panic_at,             \* per task: source line of the unwrap that panicked
    written,              \* per task (history): the fields of player_info
                          \* whose value its run has changed
    committed,            \* (history) what the last commit of lines 327-336
                          \* was made from: the identifier and the bundle
    call                  \* the call of a function of player.rs taken on its
                          \* own (the loop of lines 168-195, fixup_nsig_jscode,
                          \* the derived matchers); NoCall in fetch_update's
                          \* state machine

vars == <<player_info, lock, now, env_force, update_disabled, ytdlp, runs, pc,
          response, player_id, current_player_id, player_javascript, status,
          panic_at, written, committed, call>>

(***************************************************************************)
(* Environment: ENV_PLAYER_ID_FORCE.  A value is unset or a string, here a *)
(* sequence of characters: 0..15 are the hex digits, 16 is a character     *)
(* that is no hex digit.                                                   *)
(***************************************************************************)
EnvUnset == [set |-> FALSE, str |-> <<>>]

EnvStr(s) == [set |-> TRUE, str |-> s]

ForceEnvValues == {EnvUnset, EnvStr(<<0>>), EnvStr(<<1>>), EnvStr(<<16>>)}

\* u32::from_str_radix(s, 16): -1 stands for Err (a character that is no
\* digit, or a value of 2^32 or more: acc * 16 >= 2^32 iff acc >= 2^28)
RECURSIVE FromStrRadix16(_, _)
FromStrRadix16(s, acc) ==
    IF s = <<>> THEN acc
    ELSE IF Head(s) > 15 THEN -1
    ELSE IF acc >= 2^28 THEN -1
    ELSE FromStrRadix16(Tail(s), acc * 16 + Head(s))

\* player_id_forced(): the forced id, 0 for none, -1 when the unwrap panics
PlayerIdForced(env) ==
    LET s == IF env.set THEN env.str ELSE <<0>>
    IN  IF s = <<0>> THEN 0
        ELSE IF s = <<>> THEN -1
        ELSE FromStrRadix16(s, 0)

(***************************************************************************)
(* The reference page, as REGEX_PLAYER_ID sees it.                         *)
(***************************************************************************)
Page(k, i) == [kind |-> k, id |-> i]

Pages ==
    {Page("Err", 0), Page("BodyErr", 0), Page("NoMatch", 0), Page("NoGroup", 0)}
    \cup {Page("Match", i) : i \in PlayerIds}

NoPage == Page("None", 0)

(***************************************************************************)
(* Result of a stretch of code: go on, return a status, or panic.          *)
(***************************************************************************)
Continue(v) == [kind |-> "Continue", status |-> "Running", line |-> 0, val |-> v]

Return(s) == [kind |-> "Return", status |-> s, line |-> 0, val |-> 0]

Panic(l) == [kind |-> "Panic", status |-> "Panic", line |-> l, val |-> 0]

\* fetch_update, lines 103-121: the identity the run resolves
ResolveIdentity(page, env) ==
    IF page.kind = "Err" THEN Return("CannotFetchTestVideo")
    ELSE IF page.kind = "BodyErr" THEN Panic(104)
    ELSE IF PlayerIdForced(env) < 0 THEN Panic(32)
    ELSE IF PlayerIdForced(env) = 0 THEN
        IF page.kind = "NoMatch" THEN Panic(113)
        ELSE IF page.kind = "NoGroup" THEN Return("CannotMatchPlayerID")
        ELSE Continue(page.id)
    ELSE Continue(PlayerIdForced(env))


(***************************************************************************)
(* The player bundle, as the extraction patterns see it.  id is the        *)
(* identifier in the URL it was served from.                               *)
(*   nsig_arrays    the (0-based) entries of NSIG_FUNCTION_ARRAYS matching *)
(*   nfunc_compiles the matcher built from the nfunc capture compiles      *)
(*   array_decl     "var <nfunc> = [...]" is found                         *)
(*   idx_in_range   the idx capture indexes into that array literal        *)
(*   nsig_endings   the (0-based) entries of NSIG_FUNCTION_ENDINGS that,   *)
(*                  after the nsig function's name, match                  *)
(*   sig_function, sig_body, helper_name, helper_body                      *)
(*                  REGEX_SIGNATURE_FUNCTION, the body matcher,            *)
(*                  REGEX_HELPER_OBJ_NAME, the helper-object matcher match *)
(*   sts            the number REGEX_SIGNATURE_TIMESTAMP captures, 0: none *)
(*   global_var     extract_player_js_global_var finds a declaration       *)
(***************************************************************************)
BaseBundle(id) ==
    [id |-> id, nsig_arrays |-> {0}, nfunc_compiles |-> TRUE,
     array_decl |-> TRUE, idx_in_range |-> TRUE, nsig_endings |-> {0},
     sig_function |-> TRUE, sig_body |-> TRUE, helper_name |-> TRUE,
     helper_body |-> TRUE, sts |-> 20000 + id, global_var |-> TRUE]

\* the base bundle and every bundle that differs from it in one respect
PlayerJs(id) ==
    LET b == BaseBundle(id)
    IN  {b,
         [b EXCEPT !.nsig_arrays = {}],
         [b EXCEPT !.nsig_arrays = {1}],
         [b EXCEPT !.nsig_arrays = {0, 1}],
         [b EXCEPT !.nfunc_compiles = FALSE],
         [b EXCEPT !.array_decl = FALSE],
         [b EXCEPT !.idx_in_range = FALSE],
         [b EXCEPT !.nsig_endings = {}],
         [b EXCEPT !.nsig_endings = {1}],
         [b EXCEPT !.sig_function = FALSE],
         [b EXCEPT !.sig_body = FALSE],
         [b EXCEPT !.helper_name = FALSE],
         [b EXCEPT !.helper_body = FALSE],
         [b EXCEPT !.sts = 0],
         [b EXCEPT !.global_var = FALSE]}

NoBundle == [BaseBundle(NoId) EXCEPT !.sts = 0]

(***************************************************************************)
(* A "for index in list" loop of fetch_update: the body returns the error  *)
(* when index == len, goes on to the next entry on no match, and breaks on *)
(* a match.  Result: "Err", or the matching index, or len when the loop    *)
(* ran off the end of the list.                                            *)
(***************************************************************************)
RECURSIVE FirstMatch(_, _, _)
FirstMatch(matching, len, index) ==
    IF index >= len THEN [kind |-> "End", index |-> len]
    ELSE IF index \in matching THEN [kind |-> "Some", index |-> index]
    ELSE IF index = len THEN [kind |-> "Err", index |-> index]
    ELSE FirstMatch(matching, len, index + 1)

\* lines 168-195: the loop over NSIG_FUNCTION_ARRAYS
NsigFunctionArray(b) == FirstMatch(b.nsig_arrays, NumNsigFunctionArrays, 0)

\* lines 222-254: the loop over NSIG_FUNCTION_ENDINGS
NsigFunctionEnding(b) == FirstMatch(b.nsig_endings, NumNsigFunctionEndings, 0)

(***************************************************************************)
(* The values the run commits.  A code field is the text's origin: the     *)
(* identifier of the bundle it was cut from, and what went into it.        *)
(***************************************************************************)
EmptyCode == [for |-> NoId, body |-> -1, global |-> FALSE]

\* lines 222-254: "function decrypt_nsig" + the body of the first ending that
\* matches, through fixup_nsig_jscode; no body and no fixup when none matches
NsigFunctionCode(b) ==
    LET e == NsigFunctionEnding(b)
    IN  IF e.kind = "Some"
        THEN [for |-> b.id, body |-> e.index, global |-> b.global_var]
        ELSE [for |-> b.id, body |-> -1, global |-> FALSE]

\* lines 298-313
SigCode(b) == [for |-> b.id, body |-> 0, global |-> b.global_var]

\* lines 257-262
SigFunctionName(b) == [for |-> b.id, body |-> 0, global |-> FALSE]

\* lines 168-325: the extraction, up to the commit
Extract(b) ==
    IF NsigFunctionArray(b).kind = "Err" THEN Return("NsigRegexCompileFailed")
    ELSE IF NsigFunctionArray(b).kind = "End" THEN Panic(188)
    ELSE IF ~b.nfunc_compiles THEN Return("NsigRegexCompileFailed")
    ELSE IF ~b.array_decl THEN Panic(212)
    ELSE IF ~b.idx_in_range THEN Panic(220)
    ELSE IF NsigFunctionEnding(b).kind = "Err" THEN Return("NsigRegexCompileFailed")
    ELSE IF ~b.sig_function THEN Panic(259)
    ELSE IF ~b.sig_body THEN Panic(272)
    ELSE IF ~b.helper_name THEN Panic(280)
    ELSE IF ~b.helper_body THEN Panic(293)
    ELSE IF b.sts = 0 THEN Panic(320)
    ELSE Continue(0)

\* lines 160-166: what the bundle request for an identifier can come back with
PlayerJsResults(id) ==
    {[kind |-> "Err", js |-> NoBundle], [kind |-> "BodyErr", js |-> NoBundle]}
    \cup {[kind |-> "Ok", js |-> b] : b \in PlayerJs(id)}

\* lines 160-325: from the bundle request's result to the commit
AfterPlayerJs(r) ==
    IF r.kind = "Err" THEN Return("CannotFetchPlayerJS")
    ELSE IF r.kind = "BodyErr" THEN Panic(161)
    ELSE Extract(r.js)

\* ytdlp_signature_timestamp(player_id) (crate::ytdlp)
YtdlpSignatureTimestamp(id) == 30000 + id


(***************************************************************************)
(* The state machine.                                                      *)
(***************************************************************************)
InitPlayerInfo ==
    [player_id |-> 0, has_player |-> 0, nsig_function_code |-> EmptyCode,
     sig_function_code |-> EmptyCode, sig_function_name |-> EmptyCode,
     signature_timestamp |-> 0, last_update |-> 0]

\* no function is taken on its own
NoCall == [kind |-> "none"]

Init ==
    /\ player_info = InitPlayerInfo
    /\ lock = 0
    /\ now = 1
    /\ env_force \in ForceEnvValues
    /\ update_disabled \in BOOLEAN
    /\ ytdlp \in BOOLEAN
    /\ runs = 0
    /\ pc = [t \in Tasks |-> "idle"]
    /\ response = [t \in Tasks |-> NoPage]
    /\ player_id = [t \in Tasks |-> 0]
    /\ current_player_id = [t \in Tasks |-> 0]
    /\ player_javascript = [t \in Tasks |-> NoBundle]
    /\ status = [t \in Tasks |-> "None"]
    /\ panic_at = [t \in Tasks |-> 0]
    /\ written = [t \in Tasks |-> {}]
    /\ committed = [id |-> NoId, js |-> NoBundle]
    /\ call = NoCall

config == <<env_force, update_disabled, ytdlp>>

\* history: the run of task t has taken player_info from old to new
Changed(old, new) == {f \in DOMAIN old : old[f] # new[f]}

Writes(t) ==
    written' = [written EXCEPT ![t] = @ \cup Changed(player_info, player_info')]

\* the run of task t ends with a return or a panic: the locals are dropped,
\* the caller is left with the result (and the model with the page it saw)
Finish(t, r) ==
    /\ pc' = [pc EXCEPT ![t] = "done"]
    /\ status' = [status EXCEPT ![t] = r.status]
    /\ panic_at' = [panic_at EXCEPT ![t] = r.line]
    /\ player_id' = [player_id EXCEPT ![t] = 0]
    /\ current_player_id' = [current_player_id EXCEPT ![t] = 0]
    /\ player_javascript' = [player_javascript EXCEPT ![t] = NoBundle]

\* line 101: a caller starts fetch_update; line 103: the request is sent
Start(t) ==
    /\ UNCHANGED <<committed, call>>
    /\ pc[t] \in {"idle", "done"}
    /\ runs < MaxRuns
    /\ runs' = runs + 1
    /\ pc' = [pc EXCEPT ![t] = "get_test_video"]
    /\ response' = [response EXCEPT ![t] = NoPage]
    /\ player_id' = [player_id EXCEPT ![t] = 0]
    /\ current_player_id' = [current_player_id EXCEPT ![t] = 0]
    /\ player_javascript' = [player_javascript EXCEPT ![t] = NoBundle]
    /\ status' = [status EXCEPT ![t] = "Running"]
    /\ panic_at' = [panic_at EXCEPT ![t] = 0]
    /\ written' = [written EXCEPT ![t] = {}]
    /\ UNCHANGED <<player_info, lock, now, config>>

\* lines 103-121: the reference page arrives, the identity is resolved
TestVideoResponse(t) ==
    /\ UNCHANGED <<committed, call>>
    /\ pc[t] = "get_test_video"
    /\ \E page \in Pages :
        LET r == ResolveIdentity(page, env_force)
        IN  /\ response' = [response EXCEPT ![t] = page]
            /\ IF r.kind = "Continue"
               THEN /\ player_id' = [player_id EXCEPT ![t] = r.val]
                    /\ pc' = [pc EXCEPT ![t] = "lock_check"]
                    /\ UNCHANGED <<status, panic_at, current_player_id,
                                   player_javascript>>
               ELSE Finish(t, r)
    /\ UNCHANGED <<player_info, lock, now, config, runs, written>>

\* line 123: player_info.lock().await returns the guard
AcquireCheck(t) ==
    /\ UNCHANGED <<committed, call>>
    /\ pc[t] = "lock_check"
    /\ lock = 0
    /\ lock' = t
    /\ pc' = [pc EXCEPT ![t] = "check"]
    /\ UNCHANGED <<player_info, now, config, runs, response, player_id,
                   current_player_id, player_javascript, status, panic_at,
                   written>>

\* Check with last_update refreshed as soon as the guard is held, before the
\* identifiers are compared
CheckRefreshFirst(t) ==
    /\ UNCHANGED <<committed, call>>
    /\ pc[t] = "check"
    /\ lock = t
    /\ lock' = 0
    /\ IF /\ player_info.has_player = Populated
          /\ (PlayerIdForced(env_force) # 0 \/ update_disabled)
       THEN /\ Finish(t, Return("Ok"))
            /\ UNCHANGED <<player_info, now>>
       ELSE /\ player_info' = [player_info EXCEPT !.last_update = now]
            /\ now' = now + 1
            /\ IF player_id[t] = player_info.player_id
               THEN Finish(t, Return("PlayerAlreadyUpdated"))
               ELSE /\ current_player_id' =
                          [current_player_id EXCEPT ![t] = player_info.player_id]
                    /\ pc' = [pc EXCEPT ![t] =
                                IF ytdlp THEN "lock_ytdlp" ELSE "get_player_js"]
                    /\ UNCHANGED <<status, panic_at, player_id,
                                   player_javascript>>
    /\ Writes(t)
    /\ UNCHANGED <<config, runs, response>>

\* Check without the comparison of lines 137-140: every run that is not
\* skipped goes on to fetch
CheckNoCompare(t) ==
    /\ UNCHANGED <<committed, call>>
    /\ pc[t] = "check"
    /\ lock = t
    /\ lock' = 0
    /\ IF /\ player_info.has_player = Populated
          /\ (PlayerIdForced(env_force) # 0 \/ update_disabled)
       THEN /\ Finish(t, Return("Ok"))
            /\ UNCHANGED <<player_info, now>>
       ELSE /\ current_player_id' =
                  [current_player_id EXCEPT ![t] = player_info.player_id]
            /\ pc' = [pc EXCEPT ![t] =
                        IF ytdlp THEN "lock_ytdlp" ELSE "get_player_js"]
            /\ UNCHANGED <<player_info, now, status, panic_at, player_id,
                           player_javascript>>
    /\ Writes(t)
    /\ UNCHANGED <<config, runs, response>>

\* Check without the test of line 126: an override or the disabled flag
\* skips the run whatever has_player is
CheckSkipAlways(t) ==
    /\ UNCHANGED <<committed, call>>
    /\ pc[t] = "check"
    /\ lock = t
    /\ lock' = 0
    /\ IF PlayerIdForced(env_force) # 0 \/ update_disabled
       THEN /\ Finish(t, Return("Ok"))
            /\ UNCHANGED <<player_info, now>>
       ELSE IF player_id[t] = player_info.player_id
       THEN /\ player_info' = [player_info EXCEPT !.last_update = now]
            /\ now' = now + 1
            /\ Finish(t, Return("PlayerAlreadyUpdated"))
       ELSE /\ current_player_id' =
                  [current_player_id EXCEPT ![t] = player_info.player_id]
            /\ pc' = [pc EXCEPT ![t] =
                        IF ytdlp THEN "lock_ytdlp" ELSE "get_player_js"]
            /\ UNCHANGED <<player_info, now, status, panic_at, player_id,
                           player_javascript>>
    /\ Writes(t)
    /\ UNCHANGED <<config, runs, response>>

\* Check whose skip returns (lines 129, 133) keep the guard
CheckSkipKeepsLock(t) ==
    /\ UNCHANGED <<committed, call>>
    /\ pc[t] = "check"
    /\ lock = t
    /\ IF /\ player_info.has_player = Populated
          /\ (PlayerIdForced(env_force) # 0 \/ update_disabled)
       THEN /\ Finish(t, Return("Ok"))
            /\ UNCHANGED <<player_info, now, lock>>
       ELSE IF player_id[t] = player_info.player_id
       THEN /\ player_info' = [player_info EXCEPT !.last_update = now]
            /\ now' = now + 1
            /\ lock' = 0
            /\ Finish(t, Return("PlayerAlreadyUpdated"))
       ELSE /\ current_player_id' =
                  [current_player_id EXCEPT ![t] = player_info.player_id]
            /\ lock' = 0
            /\ pc' = [pc EXCEPT ![t] =
                        IF ytdlp THEN "lock_ytdlp" ELSE "get_player_js"]
            /\ UNCHANGED <<player_info, now, status, panic_at, player_id,
                           player_javascript>>
    /\ Writes(t)
    /\ UNCHANGED <<config, runs, response>>

\* Check with the comparison of lines 137-140 made before the skip
\* conditions of lines 126-135
CheckCompareFirst(t) ==
    /\ UNCHANGED <<committed, call>>
    /\ pc[t] = "check"
    /\ lock = t
    /\ lock' = 0
    /\ IF player_id[t] = player_info.player_id
       THEN /\ player_info' = [player_info EXCEPT !.last_update = now]
            /\ now' = now + 1
            /\ Finish(t, Return("PlayerAlreadyUpdated"))
       ELSE IF /\ player_info.has_player = Populated
               /\ (PlayerIdForced(env_force) # 0 \/ update_disabled)
       THEN /\ Finish(t, Return("Ok"))
            /\ UNCHANGED <<player_info, now>>
       ELSE /\ current_player_id' =
                  [current_player_id EXCEPT ![t] = player_info.player_id]
            /\ pc' = [pc EXCEPT ![t] =
                        IF ytdlp THEN "lock_ytdlp" ELSE "get_player_js"]
            /\ UNCHANGED <<player_info, now, status, panic_at, player_id,
                           player_javascript>>
    /\ Writes(t)
    /\ UNCHANGED <<config, runs, response>>

\* Check without line 138: PlayerAlreadyUpdated is returned and last_update
\* is left as it was
CheckNoRefresh(t) ==
    /\ UNCHANGED <<committed, call>>
    /\ pc[t] = "check"
    /\ lock = t
    /\ lock' = 0
    /\ IF /\ player_info.has_player = Populated
          /\ (PlayerIdForced(env_force) # 0 \/ update_disabled)
       THEN /\ Finish(t, Return("Ok"))
            /\ UNCHANGED <<player_info, now>>
       ELSE IF player_id[t] = player_info.player_id
       THEN /\ Finish(t, Return("PlayerAlreadyUpdated"))
            /\ UNCHANGED <<player_info, now>>
       ELSE /\ current_player_id' =
                  [current_player_id EXCEPT ![t] = player_info.player_id]
            /\ pc' = [pc EXCEPT ![t] =
                        IF ytdlp THEN "lock_ytdlp" ELSE "get_player_js"]
            /\ UNCHANGED <<player_info, now, status, panic_at, player_id,
                           player_javascript>>
    /\ Writes(t)
    /\ UNCHANGED <<config, runs, response>>

\* lines 124-145: the freshness check, under the lock; every way out drops
\* the guard
Check(t) ==
    /\ UNCHANGED <<committed, call>>
    /\ pc[t] = "check"
    /\ lock = t
    /\ lock' = 0
    /\ IF /\ player_info.has_player = Populated
          /\ (PlayerIdForced(env_force) # 0 \/ update_disabled)
       THEN /\ Finish(t, Return("Ok"))
            /\ UNCHANGED <<player_info, now>>
       ELSE IF player_id[t] = player_info.player_id
       THEN /\ player_info' = [player_info EXCEPT !.last_update = now]
            /\ now' = now + 1
            /\ Finish(t, Return("PlayerAlreadyUpdated"))
       ELSE /\ current_player_id' =
                  [current_player_id EXCEPT ![t] = player_info.player_id]
            /\ pc' = [pc EXCEPT ![t] =
                        IF ytdlp THEN "lock_ytdlp" ELSE "get_player_js"]
            /\ UNCHANGED <<player_info, now, status, panic_at, player_id,
                           player_javascript>>
    /\ Writes(t)
    /\ UNCHANGED <<config, runs, response>>

\* AcquireYtdlp without the assignment of line 147
AcquireYtdlpNoId(t) ==
    /\ UNCHANGED <<committed, call>>
    /\ pc[t] = "lock_ytdlp"
    /\ lock = 0
    /\ lock' = t
    /\ pc' = [pc EXCEPT ![t] = "ytdlp_query"]
    /\ UNCHANGED <<player_info, now, config, runs, response, player_id,
                   current_player_id, player_javascript, status, panic_at>>
    /\ Writes(t)

\* lines 146-147: the lock is taken again, player_id is written, and
\* ytdlp_signature_timestamp is called
AcquireYtdlp(t) ==
    /\ UNCHANGED <<committed, call>>
    /\ pc[t] = "lock_ytdlp"
    /\ lock = 0
    /\ lock' = t
    /\ player_info' = [player_info EXCEPT !.player_id = player_id[t]]
    /\ pc' = [pc EXCEPT ![t] = "ytdlp_query"]
    /\ UNCHANGED <<now, config, runs, response, player_id, current_player_id,
                   player_javascript, status, panic_at>>
    /\ Writes(t)

\* lines 148-151: the collaborator answers; the rest of the delegated commit
YtdlpCommit(t) ==
    /\ UNCHANGED <<committed, call>>
    /\ pc[t] = "ytdlp_query"
    /\ lock = t
    /\ lock' = 0
    /\ player_info' = [player_info EXCEPT
                         !.signature_timestamp = YtdlpSignatureTimestamp(player_id[t]),
                         !.has_player = Populated,
                         !.last_update = now]
    /\ now' = now + 1
    /\ Finish(t, Return("Ok"))
    /\ Writes(t)
    /\ UNCHANGED <<config, runs, response>>

\* PlayerJsResponse with the cache reset to its initial value when the fetch
\* or the extraction fails
PlayerJsResponseInvalidate(t) ==
    /\ UNCHANGED <<committed, call>>
    /\ pc[t] = "get_player_js"
    /\ \E r \in PlayerJsResults(player_id[t]) :
        IF AfterPlayerJs(r).kind = "Continue"
        THEN /\ player_javascript' = [player_javascript EXCEPT ![t] = r.js]
             /\ pc' = [pc EXCEPT ![t] = "lock_commit"]
             /\ UNCHANGED <<status, panic_at, player_id, current_player_id,
                            player_info>>
        ELSE /\ Finish(t, AfterPlayerJs(r))
             /\ player_info' = InitPlayerInfo
    /\ Writes(t)
    /\ UNCHANGED <<lock, now, config, runs, response>>

\* lines 155-325: the bundle arrives (or not) from the URL built from
\* player_id and the extraction runs
PlayerJsResponse(t) ==
    /\ UNCHANGED <<committed, call>>
    /\ pc[t] = "get_player_js"
    /\ \E r \in PlayerJsResults(player_id[t]) :
        IF AfterPlayerJs(r).kind = "Continue"
        THEN /\ player_javascript' = [player_javascript EXCEPT ![t] = r.js]
             /\ pc' = [pc EXCEPT ![t] = "lock_commit"]
             /\ UNCHANGED <<status, panic_at, player_id, current_player_id>>
        ELSE Finish(t, AfterPlayerJs(r))
    /\ UNCHANGED <<player_info, lock, now, config, runs, response, written>>

\* line 327: player_info.lock().await returns the guard
AcquireCommit(t) ==
    /\ UNCHANGED <<committed, call>>
    /\ pc[t] = "lock_commit"
    /\ lock = 0
    /\ lock' = t
    /\ pc' = [pc EXCEPT ![t] = "commit"]
    /\ UNCHANGED <<player_info, now, config, runs, response, player_id,
                   current_player_id, player_javascript, status, panic_at,
                   written>>

\* Commit with the three code fields left out, as the delegated commit of
\* lines 147-150 does
CommitIdOnly(t) ==
    /\ committed' = [id |-> player_id[t], js |-> player_javascript[t]]
    /\ UNCHANGED call
    /\ pc[t] = "commit"
    /\ lock = t
    /\ lock' = 0
    /\ player_info' = [player_info EXCEPT
                         !.player_id = player_id[t],
                         !.signature_timestamp = player_javascript[t].sts,
                         !.has_player = Populated,
                         !.last_update = now]
    /\ now' = now + 1
    /\ Finish(t, Return("Ok"))
    /\ Writes(t)
    /\ UNCHANGED <<config, runs, response>>

\* Commit with signature_timestamp taken from the clock, like last_update
CommitClock(t) ==
    /\ committed' = [id |-> player_id[t], js |-> player_javascript[t]]
    /\ UNCHANGED call
    /\ pc[t] = "commit"
    /\ lock = t
    /\ lock' = 0
    /\ player_info' =
         [player_id |-> player_id[t],
          nsig_function_code |-> NsigFunctionCode(player_javascript[t]),
          sig_function_code |-> SigCode(player_javascript[t]),
          sig_function_name |-> SigFunctionName(player_javascript[t]),
          signature_timestamp |-> now,
          has_player |-> Populated,
          last_update |-> now]
    /\ now' = now + 1
    /\ Finish(t, Return("Ok"))
    /\ Writes(t)
    /\ UNCHANGED <<config, runs, response>>

\* Commit that reads the cache again and writes only when player_id is still
\* the one read at line 124
CommitIfStale(t) ==
    /\ committed' = [id |-> player_id[t], js |-> player_javascript[t]]
    /\ UNCHANGED call
    /\ pc[t] = "commit"
    /\ lock = t
    /\ lock' = 0
    /\ IF player_info.player_id = current_player_id[t]
       THEN player_info' =
              [player_id |-> player_id[t],
               nsig_function_code |-> NsigFunctionCode(player_javascript[t]),
               sig_function_code |-> SigCode(player_javascript[t]),
               sig_function_name |-> SigFunctionName(player_javascript[t]),
               signature_timestamp |-> player_javascript[t].sts,
               has_player |-> Populated,
               last_update |-> now]
       ELSE player_info' = player_info
    /\ now' = now + 1
    /\ Finish(t, Return("Ok"))
    /\ Writes(t)
    /\ UNCHANGED <<config, runs, response>>

\* lines 328-336: the commit of the whole group, under the lock
Commit(t) ==
    /\ committed' = [id |-> player_id[t], js |-> player_javascript[t]]
    /\ UNCHANGED call
    /\ pc[t] = "commit"
    /\ lock = t
    /\ lock' = 0
    /\ player_info' =
         [player_id |-> player_id[t],
          nsig_function_code |-> NsigFunctionCode(player_javascript[t]),
          sig_function_code |-> SigCode(player_javascript[t]),
          sig_function_name |-> SigFunctionName(player_javascript[t]),
          signature_timestamp |-> player_javascript[t].sts,
          has_player |-> Populated,
          last_update |-> now]
    /\ now' = now + 1
    /\ Finish(t, Return("Ok"))
    /\ Writes(t)
    /\ UNCHANGED <<config, runs, response>>

Next ==
    \E t \in Tasks :
        \/ Start(t)
        \/ TestVideoResponse(t)
        \/ AcquireCheck(t)
        \/ Check(t)
        \/ AcquireYtdlp(t)
        \/ YtdlpCommit(t)
        \/ PlayerJsResponse(t)
        \/ AcquireCommit(t)
        \/ Commit(t)

Spec == Init /\ [][Next]_vars

\* Spec under fair scheduling: a response to each request arrives, the
\* collaborator answers, a task that is not suspended runs on (weak
\* fairness), and the mutex of player_info hands the lock to every task that
\* waits for it (strong fairness: the lock is free again and again).
\* Nothing obliges a caller to start a run.
FairSpec ==
    /\ Spec
    /\ \A t \in Tasks :
        /\ WF_vars(TestVideoResponse(t) \/ Check(t) \/ YtdlpCommit(t)
                     \/ PlayerJsResponse(t) \/ Commit(t))
        /\ SF_vars(AcquireCheck(t) \/ AcquireYtdlp(t) \/ AcquireCommit(t))

TypeOK ==
    /\ lock \in 0..NumTasks
    /\ player_info.player_id \in PlayerIds \cup {1}
    /\ player_info.has_player \in {0, Populated}
    /\ runs \in 0..MaxRuns

(***************************************************************************)
(* Functions taken on their own.  fetch_update's variables stay as they    *)
(* are before any run; call holds the function's arguments and locals.     *)
(***************************************************************************)
fetch_vars ==
    <<player_info, lock, now, env_force, update_disabled, ytdlp, runs, pc,
      response, player_id, current_player_id, player_javascript, status,
      panic_at, written, committed>>

NoRun ==
    /\ player_info = InitPlayerInfo
    /\ lock = 0
    /\ now = 1
    /\ env_force = EnvUnset
    /\ update_disabled = FALSE
    /\ ytdlp = FALSE
    /\ runs = 0
    /\ pc = [t \in Tasks |-> "idle"]
    /\ response = [t \in Tasks |-> NoPage]
    /\ player_id = [t \in Tasks |-> 0]
    /\ current_player_id = [t \in Tasks |-> 0]
    /\ player_javascript = [t \in Tasks |-> NoBundle]
    /\ status = [t \in Tasks |-> "None"]
    /\ panic_at = [t \in Tasks |-> 0]
    /\ written = [t \in Tasks |-> {}]
    /\ committed = [id |-> NoId, js |-> NoBundle]

(***************************************************************************)
(* Lines 168-195: the loop over NSIG_FUNCTION_ARRAYS, with the captures.   *)
(* The bundle is what each candidate captures in it: nothing, or the       *)
(* array's name (nfunc) and the index (idx).                               *)
(***************************************************************************)
MaxIdx == 2

ArrayNames == {"a", "b"}

NoCaptures == [matched |-> FALSE, nfunc |-> "", idx |-> 0]

Captures(n, i) == [matched |-> TRUE, nfunc |-> n, idx |-> i]

CandidateResults ==
    {NoCaptures} \cup {Captures(n, i) : n \in ArrayNames, i \in 0..MaxIdx}

ArrayInit ==
    /\ NoRun
    /\ \E js \in [0..(NumNsigFunctionArrays - 1) -> CandidateResults] :
        call = [kind |-> "array", js |-> js, at |-> "loop", index |-> 0,
                nsig_function_array_opt |-> NoCaptures, tried |-> {},
                nsig_array_name |-> "", nsig_array_value |-> 0]

\* lines 170-186 with the break of line 186 left out: a later candidate that
\* matches replaces the captures of an earlier one
ArrayIterationNoBreak ==
    /\ call.kind = "array"
    /\ call.at = "loop"
    /\ call.index < NumNsigFunctionArrays
    /\ LET c == call.js[call.index]
       IN  call' = [call EXCEPT
                      !.tried = @ \cup {call.index},
                      !.nsig_function_array_opt =
                          IF c.matched THEN c ELSE NoCaptures,
                      !.index = @ + 1]
    /\ UNCHANGED fetch_vars

\* lines 170-186: one iteration of the loop
ArrayIteration ==
    /\ call.kind = "array"
    /\ call.at = "loop"
    /\ call.index < NumNsigFunctionArrays
    /\ LET c == call.js[call.index]
       IN  IF c.matched
           THEN call' = [call EXCEPT !.tried = @ \cup {call.index},
                                     !.nsig_function_array_opt = c,
                                     !.at = "break"]
           ELSE IF call.index = NumNsigFunctionArrays
           THEN call' = [call EXCEPT !.tried = @ \cup {call.index},
                                     !.nsig_function_array_opt = NoCaptures,
                                     !.at = "NsigRegexCompileFailed"]
           ELSE call' = [call EXCEPT !.tried = @ \cup {call.index},
                                     !.nsig_function_array_opt = NoCaptures,
                                     !.index = @ + 1]
    /\ UNCHANGED fetch_vars

\* lines 188-195: after the loop, the captures are unwrapped and used
ArrayCaptures ==
    /\ call.kind = "array"
    /\ \/ call.at = "break"
       \/ call.at = "loop" /\ call.index >= NumNsigFunctionArrays
    /\ IF call.nsig_function_array_opt.matched
       THEN call' = [call EXCEPT
                       !.at = "done",
                       !.nsig_array_name = call.nsig_function_array_opt.nfunc,
                       !.nsig_array_value = call.nsig_function_array_opt.idx]
       ELSE call' = [call EXCEPT !.at = "panic"]
    /\ UNCHANGED fetch_vars

ArrayNext == ArrayIteration \/ ArrayCaptures

ArraySpec == ArrayInit /\ [][ArrayNext]_vars

(***************************************************************************)
(* The matchers built from captured text.  Text and patterns are sequences *)
(* of characters.  In a pattern a backslash makes the next character a     *)
(* literal, an unescaped "$" matches at the end of the text only, and any  *)
(* other character stands for itself; the fixed parts of the patterns are  *)
(* kept as the one character that follows or precedes the name.            *)
(***************************************************************************)
MaxNameLen == 3

\* a captured name: [a-zA-Z0-9_$]+
NameChars == {"a", "$"}

RECURSIVE SeqsUpTo(_)
SeqsUpTo(n) ==
    IF n = 0 THEN {<<>>}
    ELSE SeqsUpTo(n - 1) \cup
         {Append(x, c) : x \in {y \in SeqsUpTo(n - 1) : Len(y) = n - 1},
                         c \in NameChars}

CapturedNames == SeqsUpTo(MaxNameLen) \ {<<>>}

\* the rest of s after its first n characters
Drop(s, n) == SubSeq(s, n + 1, Len(s))

\* name.replace("$", "\\$")
RECURSIVE EscapeDollar(_)
EscapeDollar(name) ==
    IF name = <<>> THEN <<>>
    ELSE (IF Head(name) = "$" THEN <<"\\", "$">> ELSE <<Head(name)>>)
         \o EscapeDollar(Tail(name))

\* the pattern matches a prefix of the text
RECURSIVE MatchesHere(_, _)
MatchesHere(pattern, text) ==
    IF pattern = <<>> THEN TRUE
    ELSE IF Head(pattern) = "\\"
    THEN /\ Len(pattern) >= 2
         /\ text # <<>>
         /\ Head(text) = pattern[2]
         /\ MatchesHere(Drop(pattern, 2), Tail(text))
    ELSE IF Head(pattern) = "$"
    THEN text = <<>> /\ MatchesHere(Tail(pattern), text)
    ELSE /\ text # <<>>
         /\ Head(text) = Head(pattern)
         /\ MatchesHere(Tail(pattern), Tail(text))

\* Regex::is_match: the pattern matches somewhere in the text
IsMatch(pattern, text) ==
    \E i \in 0..Len(text) : MatchesHere(pattern, Drop(text, i))

\* the places where a pattern is built from a captured name, by source line
MatcherSites == {"nsig_array_context", "nsig_function_code",
                 "sig_function_body", "helper_object_body", "fixup_guard"}

\* the pattern of each place: the name as the code puts it in, and the
\* character of the fixed part next to it
DerivedPattern(site, name) ==
    CASE site = "nsig_array_context" -> <<"v">> \o EscapeDollar(name) \o <<"=">>
      [] site = "nsig_function_code" -> EscapeDollar(name) \o <<"=">>
      [] site = "sig_function_body"  -> EscapeDollar(name) \o <<"=">>
      [] site = "helper_object_body" -> <<"v">> \o EscapeDollar(name) \o <<"=">>
      [] site = "fixup_guard"        -> <<"=">> \o name \o <<"\\", "[">>

\* the text each pattern is meant for: the declaration (or, for the guard,
\* the indexing) of the very name it was built from
OwnText(site, name) ==
    CASE site = "nsig_array_context" -> <<"v">> \o name \o <<"=", "[">>
      [] site = "nsig_function_code" -> name \o <<"=", "f">>
      [] site = "sig_function_body"  -> name \o <<"=", "f">>
      [] site = "helper_object_body" -> <<"v">> \o name \o <<"=", "{">>
      [] site = "fixup_guard"        -> <<"=">> \o name \o <<"[", "0", "]">>

MatcherInit ==
    /\ NoRun
    /\ \E site \in MatcherSites, name \in CapturedNames :
        call = [kind |-> "matcher", site |-> site, name |-> name,
                at |-> "captured", pattern |-> <<>>, is_match |-> FALSE]

\* the pattern string is put together
BuildMatcher ==
    /\ call.kind = "matcher"
    /\ call.at = "captured"
    /\ call' = [call EXCEPT !.at = "built",
                            !.pattern = DerivedPattern(call.site, call.name)]
    /\ UNCHANGED fetch_vars

\* the pattern is applied to the text
ApplyMatcher ==
    /\ call.kind = "matcher"
    /\ call.at = "built"
    /\ call' = [call EXCEPT
                  !.at = "applied",
                  !.is_match = IsMatch(call.pattern,
                                       OwnText(call.site, call.name))]
    /\ UNCHANGED fetch_vars

MatcherNext == BuildMatcher \/ ApplyMatcher

MatcherSpec == MatcherInit /\ [][MatcherNext]_vars

(***************************************************************************)
(* fixup_nsig_jscode (lines 62-99).  Code is a sequence of tokens; a token *)
(* has a kind k and, where it matters, a name (a sequence of characters):  *)
(*   function ws ident ( ) { } ;   as in the text                          *)
(*   stmt     a statement that is no guard                                 *)
(*   guard    if(typeof x === U) return y   with U "undefined" (name <<>>) *)
(*            or U the indexing name[0] of the array called name           *)
(*   global   the declaration  var name = ...  of the global array         *)
(***************************************************************************)
MaxStmts == 3

Tok(k) == [k |-> k, name |-> <<>>]

Ident(n) == [k |-> "ident", name |-> n]

Guard(n) == [k |-> "guard", name |-> n]

GlobalDecl(n) == [k |-> "global", name |-> n]

\* NSIG_FUNCTION_NAME, as line 79 spells it
DecryptNsig == <<"decrypt_nsig">>

\* "function decrypt_nsig(<param>){"
Header(param) ==
    <<Tok("function"), Tok("ws"), Ident(DecryptNsig), Tok("("), Ident(param),
      Tok(")"), Tok("{")>>

\* \s* at the head of a text
SkipWs(t) == IF t # <<>> /\ Head(t).k = "ws" THEN Tail(t) ELSE t

\* param_regex (line 67) at the head of a text: the captured name, <<>> for
\* no match
ParamRegexHere(t) ==
    IF Len(t) >= 3 /\ t[1].k = "function" /\ t[2].k = "ws" /\ t[3].k = "ident"
    THEN LET u == SkipWs(Drop(t, 3))
         IN  IF Len(u) >= 3 /\ u[1].k = "(" /\ u[2].k = "ident" /\ u[3].k = ")"
             THEN u[2].name ELSE <<>>
    ELSE <<>>

\* lines 67-71: the first match of param_regex in jscode, "a" when none
RECURSIVE ParamName(_)
ParamName(jscode) ==
    IF jscode = <<>> THEN <<"a">>
    ELSE IF ParamRegexHere(jscode) # <<>> THEN ParamRegexHere(jscode)
    ELSE ParamName(Tail(jscode))

\* str::replace(lit, ""): every occurrence of lit is cut out
RECURSIVE CutOut(_, _)
CutOut(text, lit) ==
    IF text = <<>> THEN <<>>
    ELSE IF Len(text) >= Len(lit) /\ SubSeq(text, 1, Len(lit)) = lit
    THEN CutOut(Drop(text, Len(lit)), lit)
    ELSE <<Head(text)>> \o CutOut(Tail(text), lit)

\* the alternatives of the guard matcher after "===": "undefined" in either
\* quoting, and with a global array (varname # <<>>) the pattern
\* varname\[\d+\] of line 81, the name put in as it is
GuardOperandMatches(varname, g) ==
    \/ g.name = <<>>
    \/ /\ varname # <<>>
       /\ g.name # <<>>
       /\ MatchesHere(varname \o <<"\\", "[">>, g.name \o <<"[", "0", "]">>)

\* fixup_re (lines 81, 84) at the head of a text: the number of tokens it
\* takes (";", white space, the guard, ";"), 0 for no match
FixupReHere(t, varname) ==
    IF t # <<>> /\ Head(t).k = ";"
    THEN LET u == SkipWs(Tail(t))
         IN  IF /\ Len(u) >= 2
                /\ u[1].k = "guard"
                /\ GuardOperandMatches(varname, u[1])
                /\ u[2].k = ";"
             THEN Len(t) - Len(u) + 2
             ELSE 0
    ELSE 0

\* lines 92-94: fixup_re.replace_all(&result, ";"), the matches taken from
\* left to right without overlap
RECURSIVE ReplaceAllGuards(_, _)
ReplaceAllGuards(t, varname) ==
    IF t = <<>> THEN <<>>
    ELSE IF FixupReHere(t, varname) > 0
    THEN <<Tok(";")>> \o ReplaceAllGuards(Drop(t, FixupReHere(t, varname)), varname)
    ELSE <<Head(t)>> \o ReplaceAllGuards(Tail(t), varname)

\* the names extract_player_js_global_var captures; <<>>: it finds none
GlobalNames == {<<"a">>, <<"a", "$">>}

\* the statements of an extracted function body, for a bundle whose global
\* array is called g
Statements(g) ==
    {Tok("stmt"), Guard(<<>>)} \cup (IF g = <<>> THEN {} ELSE {Guard(g)})

RECURSIVE Bodies(_, _)
Bodies(g, n) ==
    IF n = 0 THEN {<<>>}
    ELSE LET shorter == Bodies(g, n - 1)
         IN  shorter \cup
             {b \o <<st, Tok(";")>> :
                b \in {x \in shorter : Len(x) = 2 * (n - 1)},
                st \in Statements(g)}

FixupInit ==
    /\ NoRun
    /\ \E g \in GlobalNames \cup {<<>>}, param \in {<<"a">>, <<"b">>} :
        \E body \in Bodies(g, MaxStmts) \ {<<>>} :
            call = [kind |-> "fixup",
                    jscode |-> Header(param) \o body \o <<Tok("}")>>,
                    body |-> body,
                    varname |-> g,
                    at |-> "called",
                    param_name |-> <<>>,
                    result |-> Header(param) \o body \o <<Tok("}")>>]

\* lines 67-71
FixupParamName ==
    /\ call.kind = "fixup"
    /\ call.at = "called"
    /\ call' = [call EXCEPT !.at = "param",
                            !.param_name = ParamName(call.jscode)]
    /\ UNCHANGED fetch_vars

\* lines 73-85: with a global array, the function is put together again
\* around its declaration
FixupPrepend ==
    /\ call.kind = "fixup"
    /\ call.at = "param"
    /\ call' = [call EXCEPT
                  !.at = "prepended",
                  !.result =
                     IF call.varname # <<>>
                     THEN Header(call.param_name)
                          \o <<GlobalDecl(call.varname), Tok(";"), Tok("ws")>>
                          \o CutOut(call.jscode, Header(call.param_name))
                     ELSE call.result]
    /\ UNCHANGED fetch_vars

\* lines 92-98
FixupGuards ==
    /\ call.kind = "fixup"
    /\ call.at = "prepended"
    /\ call' = [call EXCEPT
                  !.at = "done",
                  !.result = ReplaceAllGuards(call.result, call.varname)]
    /\ UNCHANGED fetch_vars

FixupNext == FixupParamName \/ FixupPrepend \/ FixupGuards

FixupSpec == FixupInit /\ [][FixupNext]_vars


(***************************************************************************)
(* Properties.                                                             *)
(***************************************************************************)
Fatal ==
    {"CannotFetchTestVideo", "CannotMatchPlayerID", "CannotFetchPlayerJS",
     "NsigRegexCompileFailed"}

CodeFields == {"nsig_function_code", "sig_function_code", "sig_function_name"}

\* the three code fields of p were all cut from the bundle of identifier id
CodeIsFor(p, id) == \A f \in CodeFields : p[f].for = id

\* C1, as claimed: outside a critical section, whatever the configuration, a
\* populated cache holds player_id = X only together with the three code
\* fields extracted for X (every commit that sets player_id sets them too).
C1_AtomicCommitAnyPath ==
    (lock = 0 /\ player_info.has_player = Populated)
        => CodeIsFor(player_info, player_info.player_id)

\* C1, amended: outside a critical section a populated cache holds, on the
\* bundle path, player_id = X together with the three code fields extracted
\* for X; on the delegated path the commit sets player_id, the collaborator's
\* timestamp and has_player and leaves the three code fields as they were.
C1_AtomicCommit ==
    (lock = 0 /\ player_info.has_player = Populated)
        => IF ytdlp
           THEN /\ \A f \in CodeFields : player_info[f] = EmptyCode
                /\ player_info.signature_timestamp =
                       YtdlpSignatureTimestamp(player_info.player_id)
           ELSE CodeIsFor(player_info, player_info.player_id)

\* a populated bundle-path cache holding one identifier while another run is
\* about to commit a different one
C1_Witness ==
    /\ ~ytdlp
    /\ lock = 0
    /\ player_info.has_player = Populated
    /\ player_info.player_id = 2
    /\ \E t \in Tasks : pc[t] = "lock_commit" /\ player_id[t] = 1

\* C2: a run that ended with one of the four fatal outcomes has changed no
\* field of the cache.
C2_NoPartialMutation ==
    \A t \in Tasks : status[t] \in Fatal => written[t] = {}

\* one run failed on the bundle fetch and another in the extraction, next to
\* a cache populated by a third
C2_Witness ==
    /\ player_info.has_player = Populated
    /\ \E t, u \in Tasks :
        /\ status[t] = "CannotFetchPlayerJS"
        /\ status[u] = "NsigRegexCompileFailed"

\* C3, as claimed: a run whose bundle matches no entry of
\* NSIG_FUNCTION_ENDINGS never reaches the commit, and the cache never holds
\* an nsig_function_code without an extracted body.
C3_PatternExhaustion ==
    /\ \A t \in Tasks :
        pc[t] \in {"lock_commit", "commit"}
            => NsigFunctionEnding(player_javascript[t]).kind = "Some"
    /\ player_info.nsig_function_code.for # NoId
            => player_info.nsig_function_code.body >= 0


\* the fields of the cache other than last_update
Group(p) ==
    <<p.player_id, p.has_player, p.nsig_function_code, p.sig_function_code,
      p.sig_function_name, p.signature_timestamp>>

\* task t, holding the lock in its freshness check, has resolved the
\* identifier a populated cache already holds: the second run of C4
SecondRun(t) ==
    /\ pc[t] = "check"
    /\ pc'[t] # "check"
    /\ player_info.has_player = Populated
    /\ player_id[t] = player_info.player_id

\* C4, as claimed: in every configuration, a run that resolves the identifier
\* a populated cache already holds yields PlayerAlreadyUpdated and leaves
\* player_id, the code fields and signature_timestamp as they are.
C4_IdempotenceAnyConfig ==
    [][\A t \in Tasks :
        SecondRun(t) => /\ status'[t] = "PlayerAlreadyUpdated"
                        /\ Group(player_info') = Group(player_info)]_vars

\* C4, amended: such a run yields PlayerAlreadyUpdated when no override is
\* active and updates are not disabled, and Ok (the skip of lines 126-135)
\* otherwise; in every configuration it ends there and leaves player_id,
\* has_player, the code fields and signature_timestamp as they are.
C4_Idempotence ==
    [][\A t \in Tasks :
        SecondRun(t) =>
            /\ pc'[t] = "done"
            /\ status'[t] =
                 IF PlayerIdForced(env_force) # 0 \/ update_disabled
                 THEN "Ok" ELSE "PlayerAlreadyUpdated"
            /\ Group(player_info') = Group(player_info)]_vars

\* a second run has reported PlayerAlreadyUpdated for a non-zero identifier,
\* which only a committed cache can hold
C4_Witness ==
    \E t \in Tasks :
        /\ pc[t] = "done"
        /\ status[t] = "PlayerAlreadyUpdated"
        /\ response[t] = Page("Match", 1)
        /\ player_info.has_player = Populated
        /\ player_info.player_id = 1
        /\ player_info.last_update >= 2

\* C5, as claimed: with a non-zero forced identifier no run waits for the
\* reference page, no run ends with CannotFetchTestVideo or
\* CannotMatchPlayerID, and the identifier a run resolves is the override.
C5_OverridePrecedence ==
    PlayerIdForced(env_force) > 0 =>
        \A t \in Tasks :
            /\ pc[t] # "get_test_video"
            /\ status[t] \notin {"CannotFetchTestVideo", "CannotMatchPlayerID"}
            /\ pc[t] \in {"lock_check", "check", "lock_ytdlp", "ytdlp_query",
                          "get_player_js", "lock_commit", "commit"}
                   => player_id[t] = PlayerIdForced(env_force)

\* C6: the cache starts Unset, and no step takes has_player from Populated
\* back to anything else.
C6_HasPlayerMonotone ==
    /\ player_info.has_player = 0
    /\ [][player_info.has_player = Populated
            => player_info'.has_player = Populated]_vars

\* a run has committed identifier 1 (Ok, and not by a skip) and the cache,
\* still Populated, now holds identifier 2: a later commit went over it
C6_Witness ==
    /\ PlayerIdForced(env_force) = 0
    /\ ~update_disabled
    /\ player_info.has_player = Populated
    /\ player_info.player_id = 2
    /\ \E t \in Tasks :
        /\ pc[t] = "done"
        /\ status[t] = "Ok"
        /\ response[t] = Page("Match", 1)

\* C7, as claimed: no run holds the cache lock while it waits for the
\* reference page, the bundle, or the delegated decoding collaborator.
C7_LockDiscipline ==
    \A t \in Tasks :
        lock = t => pc[t] \notin {"get_test_video", "get_player_js", "ytdlp_query"}

\* C8: a commit made from the identifier and the bundle the previous commit
\* was made from leaves the cache as that commit left it, last_update apart.
C8_BenignDuplicate ==
    [][\A t \in Tasks :
        ( /\ pc[t] = "commit"
          /\ pc'[t] = "done"
          /\ committed.id = player_id[t]
          /\ committed.js = player_javascript[t] )
            => Group(player_info') = Group(player_info)]_vars

\* both tasks resolved identifier 1 over the Unset cache, neither was
\* skipped nor found the cache current, and both have committed
C8_Witness ==
    /\ PlayerIdForced(env_force) = 0
    /\ ~ytdlp
    /\ runs = 2
    /\ committed = [id |-> 1, js |-> BaseBundle(1)]
    /\ player_info.last_update = 2
    /\ \A t \in Tasks :
        /\ pc[t] = "done"
        /\ status[t] = "Ok"
        /\ response[t] = Page("Match", 1)
        /\ "last_update" \in written[t]

\* C9, as claimed: with no override, a run whose reference page holds no
\* match of REGEX_PLAYER_ID ends with CannotMatchPlayerID.
C9_NoMatchTyped ==
    \A t \in Tasks :
        ( /\ pc[t] = "done"
          /\ PlayerIdForced(env_force) = 0
          /\ response[t].kind = "NoMatch" )
            => status[t] = "CannotMatchPlayerID"

\* C10, as claimed: a run that ends in the extraction, the bundle fetched and
\* read, ends with NsigRegexCompileFailed.
C10_ExtractionTyped ==
    [][\A t \in Tasks :
        ( /\ pc[t] = "get_player_js"
          /\ pc'[t] = "done"
          /\ status'[t] # "CannotFetchPlayerJS"
          /\ panic_at'[t] # 161 )
            => status'[t] = "NsigRegexCompileFailed"]_vars


\* task t leaves its freshness check (lines 124-145) in this step
Checks(t) == pc[t] = "check" /\ pc'[t] # "check"

\* the skip conditions of lines 126-135 hold
Skipped ==
    /\ player_info.has_player = Populated
    /\ (PlayerIdForced(env_force) # 0 \/ update_disabled)

\* C11: a run that finds the cache Populated while an override is active or
\* updates are disabled returns Ok there and then (no bundle fetch) and leaves
\* every field of the cache, last_update included, as it is; this comes
\* before the comparison of identifiers, so it never yields
\* PlayerAlreadyUpdated.
C11_SkipConditions ==
    [][\A t \in Tasks :
        (Checks(t) /\ Skipped) =>
            /\ pc'[t] = "done"
            /\ status'[t] = "Ok"
            /\ player_info' = player_info]_vars

\* with updates disabled, a run that resolved the identifier the populated
\* cache holds has returned Ok and written nothing
C11_Witness ==
    /\ update_disabled
    /\ PlayerIdForced(env_force) = 0
    /\ player_info.has_player = Populated
    /\ player_info.player_id = 1
    /\ \E t \in Tasks :
        /\ pc[t] = "done"
        /\ status[t] = "Ok"
        /\ written[t] = {}
        /\ response[t] = Page("Match", 1)

\* C12: a run that is not skipped and has resolved the identifier the cache
\* holds sets last_update to the current time, returns PlayerAlreadyUpdated
\* there and then (no bundle fetch, no extraction) and leaves every other
\* field as it is.
C12_AlreadyCurrent ==
    [][\A t \in Tasks :
        (Checks(t) /\ ~Skipped /\ player_id[t] = player_info.player_id) =>
            /\ pc'[t] = "done"
            /\ status'[t] = "PlayerAlreadyUpdated"
            /\ player_info' = [player_info EXCEPT !.last_update = now]
            /\ player_info'.last_update > player_info.last_update]_vars

\* a run found the populated cache current and refreshed last_update only
C12_Witness ==
    /\ player_info.has_player = Populated
    /\ player_info.player_id = 2
    /\ \E t \in Tasks :
        /\ pc[t] = "done"
        /\ status[t] = "PlayerAlreadyUpdated"
        /\ written[t] = {"last_update"}
        /\ response[t] = Page("Match", 2)

\* the pcs of the bundle path: lines 155-336
BundlePcs == {"get_player_js", "lock_commit", "commit"}

\* C13: when the delegated path is configured, a run that is neither skipped
\* nor already current takes the lock once, sets player_id, the collaborator's
\* timestamp, has_player = Populated and last_update before it releases it,
\* and returns Ok; it never requests or parses the bundle, so it never ends
\* with CannotFetchPlayerJS or NsigRegexCompileFailed.
C13_DelegatedPath ==
    /\ [](ytdlp => \A t \in Tasks :
            /\ pc[t] \notin BundlePcs
            /\ status[t] \notin {"CannotFetchPlayerJS", "NsigRegexCompileFailed"}
            /\ (pc[t] = "ytdlp_query" => lock = t))
    /\ [][\A t \in Tasks :
            /\ (ytdlp /\ Checks(t) /\ ~Skipped
                  /\ player_id[t] # player_info.player_id)
               => pc'[t] = "lock_ytdlp"
            /\ (pc[t] = "lock_ytdlp" /\ pc'[t] # "lock_ytdlp")
               => pc'[t] = "ytdlp_query" /\ lock = 0 /\ lock' = t
            /\ (pc[t] = "ytdlp_query" /\ pc'[t] # "ytdlp_query")
               => /\ pc'[t] = "done"
                  /\ status'[t] = "Ok"
                  /\ lock' = 0
                  /\ player_info' =
                       [player_info EXCEPT
                          !.player_id = player_id[t],
                          !.signature_timestamp =
                              YtdlpSignatureTimestamp(player_id[t]),
                          !.has_player = Populated,
                          !.last_update = now]]_vars

\* a delegated run has committed identifier 2 over a cache that held another
C13_Witness ==
    /\ ytdlp
    /\ lock = 0
    /\ player_info.player_id = 2
    /\ player_info.signature_timestamp = YtdlpSignatureTimestamp(2)
    /\ player_info.has_player = Populated
    /\ \E t \in Tasks :
        /\ pc[t] = "done"
        /\ status[t] = "Ok"
        /\ {"player_id", "signature_timestamp", "has_player", "last_update"}
             \subseteq written[t]

\* C15: while the cache is Unset, a run with an override and/or with updates
\* disabled is not skipped: its check compares the identifiers and, when they
\* differ, the run goes on towards the population of the cache (the delegated
\* commit or the bundle request).
C15_SuppressOnlyAfterPopulation ==
    [][\A t \in Tasks :
        (/\ Checks(t)
         /\ player_info.has_player # Populated
         /\ (PlayerIdForced(env_force) # 0 \/ update_disabled))
        => IF player_id[t] = player_info.player_id
           THEN status'[t] = "PlayerAlreadyUpdated"
           ELSE /\ pc'[t] = (IF ytdlp THEN "lock_ytdlp" ELSE "get_player_js")
                /\ status'[t] = status[t]]_vars

\* with an override or with updates disabled, a run has populated the cache
C15_Witness ==
    /\ PlayerIdForced(env_force) # 0 \/ update_disabled
    /\ player_info.has_player = Populated
    /\ \E t \in Tasks :
        /\ pc[t] = "done"
        /\ status[t] = "Ok"
        /\ "has_player" \in written[t]

\* C19: PlayerAlreadyUpdated is reported only for a Populated cache: whenever
\* a run's comparison ends it with PlayerAlreadyUpdated, has_player is
\* Populated at that moment; a run against an Unset cache never reports it,
\* whatever identifier it resolved, 0 included.
C19_AlreadyUpdatedOnlyPopulated ==
    [][\A t \in Tasks :
        (Checks(t) /\ status'[t] = "PlayerAlreadyUpdated")
        => player_info.has_player = Populated]_vars

\* the group a bundle-path commit makes from identifier id and bundle js
GroupOf(id, js) ==
    <<id, Populated, NsigFunctionCode(js), SigCode(js), SigFunctionName(js),
      js.sts>>

\* C20: the commit is unconditional and the last committer wins: a run that
\* reaches its commit writes its whole group whatever the cache holds by then
\* (it does not compare the cache with what it read at its check), so between
\* critical sections the cache holds the group of the run that committed
\* last; on the delegated path the same holds of player_id, the timestamp
\* and has_player.
C20_LastCommitterWins ==
    /\ [][\A t \in Tasks :
            /\ (pc[t] = "commit" /\ pc'[t] # "commit")
               => /\ status'[t] = "Ok"
                  /\ Group(player_info') =
                       GroupOf(player_id[t], player_javascript[t])
            /\ (pc[t] = "ytdlp_query" /\ pc'[t] # "ytdlp_query")
               => /\ status'[t] = "Ok"
                  /\ player_info'.player_id = player_id[t]
                  /\ player_info'.signature_timestamp =
                       YtdlpSignatureTimestamp(player_id[t])
                  /\ player_info'.has_player = Populated]_vars
    /\ []((lock = 0 /\ ~ytdlp /\ committed.id # NoId)
            => Group(player_info) = GroupOf(committed.id, committed.js))

\* two runs resolved identifiers 1 and 2 and both have committed; the run
\* with identifier 1 committed last, over the other run's group, and the
\* cache holds its group
C20_Witness ==
    /\ ~ytdlp
    /\ runs = 2
    /\ \A t \in Tasks : pc[t] = "done" /\ status[t] = "Ok"
    /\ response[1] = Page("Match", 1)
    /\ response[2] = Page("Match", 2)
    /\ \A t \in Tasks : "player_id" \in written[t]
    /\ committed.id = 1
    /\ Group(player_info) = GroupOf(1, committed.js)

\* the ways a run ends: success (also of a skipped run), the informational
\* PlayerAlreadyUpdated, a fatal status, or a panic that unwinds the task
Outcomes ==
    {"Ok", "PlayerAlreadyUpdated", "CannotFetchTestVideo",
     "CannotMatchPlayerID", "CannotFetchPlayerJS", "NsigRegexCompileFailed",
     "Panic"}

Matching == {i \in DOMAIN call.js : call.js[i].matched}

\* the least element of a non-empty set of numbers
Least(S) == CHOOSE i \in S : \A j \in S : i <= j

\* C16: the candidates of NSIG_FUNCTION_ARRAYS are tried in list order; the
\* array name and the index used are the captures of the first candidate that
\* matches the bundle, also when that is the second one, and no candidate
\* after it is tried.
C16_FallbackOrdering ==
    call.kind = "array" =>
        /\ call.tried = 0..(call.index - 1) \cup
                          (IF call.at \in {"break", "done"}
                           THEN {call.index} ELSE {})
        /\ \A i \in call.tried : \A j \in Matching : i <= j
        /\ call.at = "done" =>
             /\ Matching # {}
             /\ call.nsig_array_name = call.js[Least(Matching)].nfunc
             /\ call.nsig_array_value = call.js[Least(Matching)].idx
        /\ Matching # {} => call.at \in {"loop", "break", "done"}
        /\ (Matching # {} /\ call.at = "loop") => call.index <= Least(Matching)

\* a bundle that only the second candidate matches: the second candidate's
\* captures are the ones used
C16_Witness ==
    /\ call.kind = "array"
    /\ call.at = "done"
    /\ ~call.js[0].matched
    /\ call.js[1] = Captures("b", 2)
    /\ call.nsig_array_name = "b"
    /\ call.nsig_array_value = 2
    /\ call.tried = {0, 1}

\* C18: every matcher built from captured text (the nsig array name, the
\* nsig function name, the signature function name, the helper-object name,
\* the global array name of the guard-removal matcher) puts the text in only
\* after the escaping step, so that a name with a "$" in it still matches its
\* own declaration.
C18_EscapingInvariant ==
    (call.kind = "matcher" /\ call.at = "applied") =>
        /\ call.is_match
        /\ \E i \in 1..Len(call.pattern) :
             SubSeq(call.pattern, i, i + Len(EscapeDollar(call.name)) - 1)
               = EscapeDollar(call.name)

\* the places of the tokens of kind k in a text
Places(t, k) == {i \in 1..Len(t) : t[i].k = k}

\* C17: for an extracted nsig function and a bundle with a global array
\* declaration after the strict-mode prologue, the output of
\* fixup_nsig_jscode is one function (the original header is not left inside
\* it), its body begins with that declaration, before the original body's
\* first statement, and no early-return guard is left in it.
C17_FixupCorrectness ==
    (call.kind = "fixup" /\ call.at = "done" /\ call.varname # <<>>) =>
        /\ Cardinality(Places(call.result, "function")) = 1
        /\ SubSeq(call.result, 1, 9) =
             Header(call.jscode[5].name)
               \o <<GlobalDecl(call.varname), Tok(";")>>
        /\ \A i \in Places(call.result, "stmt") \cup Places(call.result, "guard") :
             i > 8
        /\ Places(call.result, "guard") = {}

=============================================================================
